---- MODULE Spec2Model ----
(***************************************************************************)
(* Model of batch_resize.py: the geometry helpers (center_square,          *)
(* expand_aspect), the single-image batch mode (run_batch), the compose    *)
(* mode (run_compose) and the dispatcher (process).                        *)
(*                                                                         *)
(* Numbers.  A box is the tuple <<l, t, r, b>> of the source.  The target  *)
(* ratio tw/th is kept as the pair <<tw, th>> and every float expression   *)
(* of expand_aspect is evaluated exactly on it: bw/bh < ratio by cross     *)
(* multiplication, int(x) by truncation toward zero.  On the ranges the    *)
(* specifications below draw from (tw, th <= 6, extents <= 40) the exact   *)
(* value and the IEEE double value of every such expression coincide; for  *)
(* other ratios (3/17, 5/29, ...) int(bw/ratio) can come out one below the *)
(* exact quotient, which the model does not show.                          *)
(***************************************************************************)
EXTENDS Integers, Sequences, FiniteSets, TLC

\* ---------------------------------------------------------------- bounds
MaxDim    == 5      \* image width and height of the geometry specifications
MaxTarget == 3      \* target width and height of a ratio
MaxPad    == 2      \* pad
MaxBatchPad == 1    \* --pad, default_pad and a profile's pad in run_batch
MaxEntries  == 2    \* entries of the input directory
MaxImgs     == 4    \* *.jpg files of a subfolder
MaxRows     == 2    \* rows of a layout pattern
MaxCols     == 2    \* columns of a row
MaxGutter   == 1    \* gutter of a layout

\* --------------------------------------------------------------- helpers
Min(a, b) == IF a < b THEN a ELSE b
Max(a, b) == IF a > b THEN a ELSE b
Abs(a)    == IF a < 0 THEN -a ELSE a

\* Python's int() of the float n/d (d > 0): truncation toward zero.
IntOfQuotient(n, d) == IF n >= 0 THEN n \div d ELSE -((-n) \div d)

\* The float comparison bw/bh < tw/th (bh # 0, th > 0).
RatioLess(bw, bh, ratio) ==
    IF bh > 0 THEN bw * ratio[2] < ratio[1] * bh
              ELSE bw * ratio[2] > ratio[1] * bh

\* ------------------------------------------------------------- geometry
center_square_skewed(w, h, pad) ==
    LET side == Min(w, h) - 2*pad
        l    == (w - side) \div 2
        t    == (w - side) \div 2
    IN  <<l, t, l + side, t + side>>

center_square(w, h, pad) ==
    LET side == Min(w, h) - 2*pad
        l    == (w - side) \div 2
        t    == (h - side) \div 2
    IN  <<l, t, l + side, t + side>>

\* Lines 77-82 of expand_aspect: the expanded and padded box before the
\* clamp of line 83.  bw/bh raises ZeroDivisionError when b = t: callers
\* test ExpandRaises first.
ExpandRaises(l, t, r, b) == b - t = 0

expand_padded_full_delta(l, t, r, b, ratio, pad) ==
    LET bw == r - l
        bh == b - t
    IN  IF RatioLess(bw, bh, ratio)
        THEN LET nw == IntOfQuotient(bh * ratio[1], ratio[2])
                 d  == nw - bw
             IN  <<l - d - pad, t - pad, r + d + pad, b + pad>>
        ELSE LET nh == IntOfQuotient(bw * ratio[2], ratio[1])
                 d  == nh - bh
             IN  <<l - pad, t - d - pad, r + pad, b + d + pad>>

expand_padded(l, t, r, b, ratio, pad) ==
    LET bw == r - l
        bh == b - t
    IN  IF RatioLess(bw, bh, ratio)
        THEN LET nw == IntOfQuotient(bh * ratio[1], ratio[2])
                 d  == (nw - bw) \div 2
             IN  <<l - d - pad, t - pad, r + d + pad, b + pad>>
        ELSE LET nh == IntOfQuotient(bw * ratio[2], ratio[1])
                 d  == (nh - bh) \div 2
             IN  <<l - pad, t - d - pad, r + pad, b + d + pad>>

expand_aspect_no_clamp(l, t, r, b, ratio, w, h, pad) ==
    expand_padded(l, t, r, b, ratio, pad)

expand_aspect(l, t, r, b, ratio, w, h, pad) ==
    LET u == expand_padded(l, t, r, b, ratio, pad)
    IN  <<Max(u[1], 0), Max(u[2], 0), Min(u[3], w), Min(u[4], h)>>

\* ------------------------------------------------------------------ state
VARIABLES
    \* one call of a geometry helper
    gpc,     \* geometry call position: "in", "sq", "ex", "re"
    gw, gh,  \* image size of the call
    gbox,    \* input box
    gratio,  \* <<tw, th>>
    gpad,    \* pad
    gres,    \* result of the call
    gres2,   \* result of re-applying expand_aspect to gres with pad 0
    \* what one run of process is given
    args,    \* parse_args(): [pad, min_area, max_area, debug]
    yolo,    \* _YOLO: whether ultralytics could be imported
    config,  \* the JSON document at args.cfg
    entries, \* input_root.iterdir(), in the order the directory yields
    \* the run
    pc,      \* "idle", "load", "scan", "batch", "folders", "profiles", "done", "crashed"
    single,  \* process: image files found
    folders, \* process: subfolders found
    bi,      \* run_batch: index of the next source image
    fi,      \* process: index of the next subfolder
    imgs,    \* run_compose: sorted images of the current subfolder
    pi,      \* run_compose: index of the next profile
    last,    \* run_batch: locals of the last completed iteration
    writes   \* files saved so far, in order: [path, kind, unit, data]

gvars == <<gpc, gw, gh, gbox, gratio, gpad, gres, gres2>>
envvars == <<args, yolo, config, entries>>
runvars == <<pc, single, folders, bi, fi, imgs, pi, last, writes>>
vars  == <<gpc, gw, gh, gbox, gratio, gpad, gres, gres2,
           args, yolo, config, entries,
           pc, single, folders, bi, fi, imgs, pi, last, writes>>

\* Python's None and a present value.
None    == <<>>
Some(v) == <<v>>

NoBox == <<0, 0, 0, 0>>

Boxes(w, h) ==
    { <<l, t, r, b>> : l \in 0..w, t \in 0..h, r \in 0..w, b \in 0..h }

ProperBoxes(w, h) == { x \in Boxes(w, h) : x[1] < x[3] /\ x[2] < x[4] }

\* ------------------------------------------- center_square, applied alone
\* The sizes and the pad of the documented scenario center_square(1000, 800, 40).
ScenarioDims == {800, 1000}
ScenarioPads == {40}

\* No run of process: the state of the geometry specifications.
NoRun ==
    /\ args = [pad |-> 0, min_area |-> 0, max_area |-> None, debug |-> FALSE]
    /\ yolo = FALSE
    /\ config = [profiles |-> <<>>]
    /\ entries = <<>>
    /\ pc = "idle"
    /\ single = <<>>
    /\ folders = <<>>
    /\ bi = 1
    /\ fi = 1
    /\ imgs = <<>>
    /\ pi = 1
    /\ last = None
    /\ writes = <<>>

InitSquare ==
    /\ NoRun
    /\ gpc = "in"
    /\ gw \in (1..(MaxDim + 2)) \cup ScenarioDims
    /\ gh \in (1..(MaxDim + 2)) \cup ScenarioDims
    /\ gpad \in ((-MaxPad)..MaxPad) \cup ScenarioPads
    /\ gbox = NoBox
    /\ gratio = <<1, 1>>
    /\ gres = NoBox
    /\ gres2 = NoBox

CenterSquareCall ==
    /\ gpc = "in"
    /\ gres' = center_square(gw, gh, gpad)
    /\ gpc' = "sq"
    /\ UNCHANGED <<gw, gh, gbox, gratio, gpad, gres2, envvars, runvars>>

SpecSquare == InitSquare /\ [][CenterSquareCall]_vars

\* ------------------------------------------- expand_aspect, applied twice
InitExpand ==
    /\ NoRun
    /\ gpc = "in"
    /\ gw \in 1..MaxDim
    /\ gh \in 1..MaxDim
    /\ gbox \in ProperBoxes(gw, gh)
    /\ gratio \in (1..MaxTarget) \X (1..MaxTarget)
    /\ gpad \in 0..MaxPad
    /\ gres = NoBox
    /\ gres2 = NoBox

ExpandCall ==
    /\ gpc = "in"
    /\ ~ExpandRaises(gbox[1], gbox[2], gbox[3], gbox[4])
    /\ gres' = expand_aspect(gbox[1], gbox[2], gbox[3], gbox[4], gratio, gw, gh, gpad)
    /\ gpc' = "ex"
    /\ UNCHANGED <<gw, gh, gbox, gratio, gpad, gres2, envvars, runvars>>

\* The second application of the idempotence property: same ratio, pad 0.
ReExpandCall ==
    /\ gpc = "ex"
    /\ ~ExpandRaises(gres[1], gres[2], gres[3], gres[4])
    /\ gres2' = expand_aspect(gres[1], gres[2], gres[3], gres[4], gratio, gw, gh, 0)
    /\ gpc' = "re"
    /\ UNCHANGED <<gw, gh, gbox, gratio, gpad, gres, envvars, runvars>>

SpecExpand == InitExpand /\ [][ExpandCall \/ ReExpandCall]_vars

\* ------------------------------------------------------------- run_batch
\* No geometry call: the state of the run specifications.
NoCall ==
    /\ gpc = "idle"
    /\ gw = 1 /\ gh = 1
    /\ gbox = NoBox
    /\ gratio = <<1, 1>>
    /\ gpad = 0
    /\ gres = NoBox
    /\ gres2 = NoBox

OutDir == "output"                      \* --out-dir, line 45
DefaultSeparator == "_"                 \* line 96, line 130
DefaultBg == "#000000"                  \* line 151
ImageSuffixes == {".jpg", ".jpeg", ".png"}   \* line 189
OutlineWidth == 3                       \* line 112

\* A directory entry.  A Path's name is stem \o suffix.
File(stem, suffix, readable, size) ==
    [kind |-> "file", stem |-> stem, suffix |-> suffix, readable |-> readable,
     size |-> size, listing |-> <<>>]
Dir(name, listing) ==
    [kind |-> "dir", stem |-> name, suffix |-> "", readable |-> TRUE,
     size |-> <<0, 0>>, listing |-> listing]
Name(e) == e.stem \o e.suffix

\* Python truthiness of an optional int: None and 0 are false (line 109).
Truthy(opt) == opt # None /\ opt[1] # 0

Area(x) == (x[3] - x[1]) * (x[4] - x[2])

\* Lines 104-110: the base box of an image of size w x h, given what
\* get_bbox_yolo returned (None without a model or without a detection).
BaseBox(det, w, h) ==
    LET found == IF det = None THEN center_square(w, h, args.pad) ELSE det[1]
        area  == Area(found)
    IN  IF area < args.min_area
           \/ (Truthy(args.max_area) /\ area > args.max_area[1])
        THEN center_square(w, h, args.pad)
        ELSE found

\* Line 97 and line 116.
DefaultPad == IF config.default_pad # None THEN config.default_pad[1] ELSE args.pad
ProfilePad(prof) == IF prof.pad # None THEN prof.pad[1] ELSE DefaultPad

\* Line 96 and line 130.
Separator == IF config.separator # None THEN config.separator[1] ELSE DefaultSeparator

\* Line 89 under line 122's directory out_root/tag.
ArtifactPath(tag, stem, size, ext) ==
    OutDir \o "/" \o tag \o "/" \o stem \o Separator \o tag
           \o ToString(size[1]) \o "x" \o ToString(size[2]) \o ext

\* Line 113.
DebugPath(stem) == OutDir \o "/" \o "debug_" \o stem \o ".jpg"

\* Lines 155 and 176.
ComposePath(tag, folderName, size) ==
    OutDir \o "/" \o tag \o "/" \o folderName \o "_" \o tag \o Separator
           \o ToString(size[1]) \o "x" \o ToString(size[2]) \o ".jpg"

\* Line 112 draws on im itself: the pixels (x, y) of the outline of box x0,
\* OutlineWidth wide, inside the rectangle l..r by t..b inclusive.
OnOutline(x, y, x0) ==
    /\ x0[1] <= x /\ x <= x0[3]
    /\ x0[2] <= y /\ y <= x0[4]
    /\ \/ x - x0[1] < OutlineWidth
       \/ x0[3] - x < OutlineWidth
       \/ y - x0[2] < OutlineWidth
       \/ x0[4] - y < OutlineWidth

\* Line 120: whether the crop l..r-1 by t..b-1 of an image on which the
\* boxes of drawn were outlined holds an outline pixel.
CropShowsOutline(drawn, crop) ==
    \E x0 \in drawn :
        \E x \in crop[1]..(crop[3] - 1), y \in crop[2]..(crop[4] - 1) :
            OnOutline(x, y, x0)

\* Lines 116-122 for one profile: the file resize_and_save writes.
ProfileWrite(src, bbox, drawn, prof) ==
    LET crop == expand_aspect(bbox[1], bbox[2], bbox[3], bbox[4], prof.size,
                              src.size[1], src.size[2], ProfilePad(prof))
    IN  [path |-> ArtifactPath(prof.tag, src.stem, prof.size, src.suffix),
         kind |-> "artifact",
         unit |-> <<Name(src), prof.tag>>,
         data |-> [src |-> Name(src), crop |-> crop, size |-> prof.size,
                   outlined |-> CropShowsOutline(drawn, crop)]]

\* Lines 111-113: the debug file, and the boxes outlined on im afterwards.
DebugWrites(src, bbox) ==
    IF args.debug
    THEN << [path |-> DebugPath(src.stem), kind |-> "debug",
             unit |-> <<Name(src), "debug">>,
             data |-> [src |-> Name(src), crop |-> <<0, 0, src.size[1], src.size[2]>>,
                       size |-> src.size, outlined |-> TRUE]] >>
    ELSE << >>
Drawn(bbox) == IF args.debug THEN {bbox} ELSE {}

\* What get_bbox_yolo may return for an image (lines 61-67, 104): nothing
\* without a model; with one, nothing or the largest box the detector found.
Detections(src) ==
    IF yolo
    THEN {None} \cup { Some(x) : x \in { y \in ProperBoxes(src.size[1], src.size[2]) :
                                         y[1] = 1 /\ y[2] = 1 } }
    ELSE {None}

\* ----------------------------------------------------------- run_compose
sorted_as_listed(listing) == listing

\* Line 135: sorted(folder.glob("*.jpg")); a file is its rank in filename order.
sorted(listing) == SortSeq(listing, LAMBDA a, b : a < b)

\* Lines 145-147.
Orientation(cw, ch) ==
    IF ch > cw THEN "vertical" ELSE IF cw > ch THEN "horizontal" ELSE "square"

row_height_per_columns(ch, gutter, numRows) == (ch - gutter * numRows) \div numRows

\* Line 162.
row_height(ch, gutter, numRows) == (ch - gutter * (numRows - 1)) \div numRows

\* Line 163.
cell_width(cw, gutter, rcount) == (cw - gutter * (rcount - 1)) \div rcount

\* Line 170.
paste_x(col, cw_cell, gutter) == col * (cw_cell + gutter)

\* Lines 164-172: the columns col.. of one row; st is [y, idx, pastes, err].
\* imgs[idx] raises IndexError past the last image.
RECURSIVE ComposeCols(_, _, _, _, _, _, _)
ComposeCols(col, rcount, st, images, cw_cell, rh, gutter) ==
    IF col = rcount THEN st
    ELSE IF st.idx >= Len(images) THEN [st EXCEPT !.err = TRUE]
    ELSE ComposeCols(col + 1, rcount,
            [st EXCEPT !.pastes = Append(@, [img |-> images[st.idx + 1],
                                             x |-> paste_x(col, cw_cell, gutter),
                                             y |-> st.y, w |-> cw_cell, h |-> rh]),
                       !.idx = @ + 1],
            images, cw_cell, rh, gutter)

\* Lines 161-173: the rows ri.. of the pattern.
RECURSIVE ComposeRows(_, _, _, _, _, _, _)
ComposeRows(rows, ri, st, images, cw, ch, gutter) ==
    IF ri > Len(rows) THEN st
    ELSE LET rcount  == rows[ri]
             rh      == row_height(ch, gutter, Len(rows))
             cw_cell == cell_width(cw, gutter, rcount)
             st2     == ComposeCols(0, rcount, st, images, cw_cell, rh, gutter)
         IN  IF st2.err THEN st2
             ELSE ComposeRows(rows, ri + 1, [st2 EXCEPT !.y = @ + rh + gutter],
                              images, cw, ch, gutter)

\* Lines 159-173 for a canvas cw x ch.
ComposeCanvas(rows, images, cw, ch, gutter) ==
    ComposeRows(rows, 1, [y |-> 0, idx |-> 0, pastes |-> <<>>, err |-> FALSE],
                images, cw, ch, gutter)

\* Lines 149-152 for a profile.
LayoutOf(prof)  == config.layouts[Orientation(prof.size[1], prof.size[2])]
GutterOf(prof)  == IF LayoutOf(prof).gutter # None THEN LayoutOf(prof).gutter[1] ELSE 0
BgOf(prof)      == IF LayoutOf(prof).bg_color # None THEN LayoutOf(prof).bg_color[1] ELSE DefaultBg
HasPattern(prof, n) == n \in DOMAIN LayoutOf(prof).patterns
RowsOf(prof, n) == LayoutOf(prof).patterns[n].rows

\* ----------------------------------------------------------------- process
\* Line 182: load_config raises when the document cannot be read or parsed.
LoadConfig ==
    /\ pc = "load"
    /\ \E ok \in BOOLEAN : pc' = IF ok THEN "scan" ELSE "crashed"
    /\ UNCHANGED <<gvars, envvars, single, folders, bi, fi, imgs, pi, last, writes>>

\* Lines 183-191.
Scan ==
    /\ pc = "scan"
    /\ single' = SelectSeq(entries, LAMBDA e : e.kind = "file" /\ e.suffix \in ImageSuffixes)
    /\ folders' = SelectSeq(entries, LAMBDA e : e.kind = "dir")
    /\ pc' = IF single' # <<>> THEN "batch" ELSE "folders"
    /\ UNCHANGED <<gvars, envvars, bi, fi, imgs, pi, last, writes>>

\* Lines 101-122: one iteration of run_batch's loop; the loop's end returns
\* to process.  Image.open raises on a file that is no readable image.
RunBatchImage ==
    /\ pc = "batch"
    /\ bi <= Len(single)
    /\ LET src == single[bi]
       IN  IF ~src.readable
           THEN /\ pc' = "crashed"
                /\ UNCHANGED <<bi, last, writes>>
           ELSE \E det \in Detections(src) :
                LET bbox == BaseBox(det, src.size[1], src.size[2])
                IN  /\ writes' = writes \o DebugWrites(src, bbox)
                           \o [i \in 1..Len(config.profiles) |->
                                 ProfileWrite(src, bbox, Drawn(bbox), config.profiles[i])]
                    /\ last' = Some([src |-> Name(src), size |-> src.size,
                                     det |-> det, bbox |-> bbox])
                    /\ bi' = bi + 1
                    /\ pc' = IF bi = Len(single) THEN "folders" ELSE "batch"
    /\ UNCHANGED <<gvars, envvars, single, folders, fi, imgs, pi>>

\* Lines 129-138 for folders[fi]: an empty folder returns at once.
ComposeEnter ==
    /\ pc = "folders"
    /\ fi <= Len(folders)
    /\ imgs' = sorted(folders[fi].listing)
    /\ pi' = 1
    /\ IF Len(imgs') = 0 \/ Len(config.profiles) = 0
       THEN pc' = "folders" /\ fi' = fi + 1
       ELSE pc' = "profiles" /\ fi' = fi
    /\ UNCHANGED <<gvars, envvars, single, folders, bi, last, writes>>

\* Lines 140-177: one iteration of run_compose's loop over the profiles.
\* patterns[str(n)] raises KeyError, imgs[idx] IndexError.
ComposeProfile ==
    /\ pc = "profiles"
    /\ LET prof   == config.profiles[pi]
           folder == folders[fi]
           n      == Len(imgs)
       IN  IF ~HasPattern(prof, n)
           THEN /\ pc' = "crashed"
                /\ UNCHANGED <<fi, pi, writes>>
           ELSE LET st == ComposeCanvas(RowsOf(prof, n), imgs, prof.size[1],
                                        prof.size[2], GutterOf(prof))
                IN  IF st.err
                    THEN /\ pc' = "crashed"
                         /\ UNCHANGED <<fi, pi, writes>>
                    ELSE /\ writes' = Append(writes,
                               [path |-> ComposePath(prof.tag, folder.stem, prof.size),
                                kind |-> "compose",
                                unit |-> <<Name(folder), prof.tag>>,
                                data |-> [size |-> prof.size, bg |-> BgOf(prof),
                                          gutter |-> GutterOf(prof),
                                          rows |-> RowsOf(prof, n),
                                          images |-> imgs,
                                          pastes |-> st.pastes]])
                         /\ IF pi = Len(config.profiles)
                            THEN pc' = "folders" /\ fi' = fi + 1 /\ pi' = pi
                            ELSE pc' = "profiles" /\ fi' = fi /\ pi' = pi + 1
    /\ UNCHANGED <<gvars, envvars, single, folders, bi, imgs, last>>

\* Line 193's loop ends: process returns.
Finish ==
    /\ pc = "folders"
    /\ fi > Len(folders)
    /\ pc' = "done"
    /\ UNCHANGED <<gvars, envvars, single, folders, bi, fi, imgs, pi, last, writes>>

\* ----------------------------------------------- what a run is given
Profile(tag, size, pad) == [tag |-> tag, size |-> size, pad |-> pad]
Layout(gutter, bg, patterns) == [gutter |-> gutter, bg_color |-> bg, patterns |-> patterns]
Orientations == {"vertical", "horizontal", "square"}

\* Source images are larger than twice the largest pad, so center_square's
\* side is positive: on a smaller image the crop box is empty or inverted
\* and what happens is PIL's to decide, not this file's.
ImgW == 2 * MaxBatchPad + 2
ImgH == 2 * MaxBatchPad + 1

\* The input directory of the whole-run specification: two images that
\* share a stem, a file that is no image, a text file and two subfolders.
EntryPool ==
    { File("a", ".jpg", TRUE, <<ImgW, ImgH>>),
      File("a", ".png", TRUE, <<ImgH, ImgW>>),
      File("b", ".jpg", FALSE, <<ImgW, ImgH>>),
      File("n", ".txt", TRUE, <<0, 0>>),
      Dir("x", <<2, 1>>),
      Dir("y", <<1, 3, 2>>) }

DistinctSeqs(S, n) ==
    UNION { { q \in [1..k -> S] : \A i, j \in 1..k : i # j => q[i] # q[j] } : k \in 0..n }

ProfileLists ==
    { << Profile("S", <<4, 4>>, None) >>,
      << Profile("S", <<6, 4>>, Some(0)), Profile("L", <<4, 6>>, None) >> }

\* Patterns by image count: none for 3 images, one of four cells for 3
\* images, one of three cells for 3 images.
PatternSets ==
    { (2 :> [rows |-> <<2>>]),
      (2 :> [rows |-> <<1, 1>>]) @@ (3 :> [rows |-> <<2, 2>>]),
      (2 :> [rows |-> <<2>>]) @@ (3 :> [rows |-> <<1, 2>>]) }

Configs ==
    { [profiles |-> ps, separator |-> sep, default_pad |-> dp,
       layouts |-> [o \in Orientations |-> Layout(Some(1), None, pats)]] :
      ps \in ProfileLists, sep \in {None, Some("-")}, dp \in {None, Some(MaxBatchPad)},
      pats \in PatternSets }

ArgsSet ==
    [pad : 0..MaxBatchPad, min_area : {0, 3}, max_area : {None, Some(0), Some(4)},
     debug : BOOLEAN]

Init ==
    /\ NoCall
    /\ args \in ArgsSet
    /\ yolo \in BOOLEAN
    /\ config \in Configs
    /\ entries \in DistinctSeqs(EntryPool, MaxEntries)
    /\ pc = "load"
    /\ single = <<>>
    /\ folders = <<>>
    /\ bi = 1
    /\ fi = 1
    /\ imgs = <<>>
    /\ pi = 1
    /\ last = None
    /\ writes = <<>>

Next ==
    \/ LoadConfig
    \/ Scan
    \/ RunBatchImage
    \/ ComposeEnter
    \/ ComposeProfile
    \/ Finish

Spec == Init /\ [][Next]_vars

\* ------------------------------------- run_compose on one folder, in detail
\* The listings of a folder of n files: every rotation of the sorted order.
Listings ==
    UNION { { [i \in 1..n |-> ((i + k - 1) % n) + 1] : k \in 0..(n - 1) } : n \in 1..MaxImgs }
        \cup { <<>> }

RECURSIVE SeqsUpTo(_, _)
SeqsUpTo(S, n) == IF n = 0 THEN { <<>> }
                  ELSE LET shorter == SeqsUpTo(S, n - 1)
                       IN  shorter \cup { Append(q, x) : q \in shorter, x \in S }

RowPatterns == SeqsUpTo(1..MaxCols, MaxRows) \ { <<>> }

\* Canvases of the documented scenario (800x800, gutter 10) and two whose
\* sides no row or column count divides.
CanvasSizes == { <<800, 800>>, <<64, 47>>, <<47, 65>> }
Gutters == { None, Some(10) } \cup { Some(g) : g \in 0..MaxGutter }

InitCompose ==
    /\ NoCall
    /\ args = [pad |-> 0, min_area |-> 0, max_area |-> None, debug |-> FALSE]
    /\ yolo = FALSE
    /\ \E size \in CanvasSizes, g \in Gutters, rows \in RowPatterns, listing \in Listings :
         /\ entries = << Dir("x", listing) >>
         /\ config = [profiles |-> << Profile("S", size, None) >>,
                      separator |-> None, default_pad |-> None,
                      layouts |-> [o \in Orientations |->
                                     Layout(g, None, (Len(listing) :> [rows |-> rows]))]]
    /\ pc = "load"
    /\ single = <<>>
    /\ folders = <<>>
    /\ bi = 1
    /\ fi = 1
    /\ imgs = <<>>
    /\ pi = 1
    /\ last = None
    /\ writes = <<>>

NextCompose ==
    \/ LoadConfig
    \/ Scan
    \/ ComposeEnter
    \/ ComposeProfile
    \/ Finish

SpecCompose == InitCompose /\ [][NextCompose]_vars

\* ------------------------------------------------------ geometry claims
Width(x)  == x[3] - x[1]
Height(x) == x[4] - x[2]

\* The clamp of line 83 changed the padded box of the call in gbox.
Truncated ==
    gres # expand_padded(gbox[1], gbox[2], gbox[3], gbox[4], gratio, gpad)

\* Aspect bw/bh equals tw/th within one pixel: bw is within one of
\* int(bh*ratio), or bh within one of int(bw/ratio).
AspectWithinOnePixel(bw, bh, ratio) ==
    \/ Abs(bw - IntOfQuotient(bh * ratio[1], ratio[2])) <= 1
    \/ Abs(bh - IntOfQuotient(bw * ratio[2], ratio[1])) <= 1

\* C1: for every image size, every input box inside the image with
\* l < r and t < b, every positive ratio and every pad >= 0, the box
\* expand_aspect returns satisfies 0 <= left < right <= w and
\* 0 <= top < bottom <= h.
C1_BoxInvariant ==
    gpc \in {"ex", "re"} =>
        /\ 0 <= gres[1] /\ gres[1] < gres[3] /\ gres[3] <= gw
        /\ 0 <= gres[2] /\ gres[2] < gres[4] /\ gres[4] <= gh

\* C1 witness: a call whose expansion left the image and was clamped back.
C1_Witness ==
    /\ gpc = "ex"
    /\ Truncated
    /\ gres # gbox
    /\ gpad > 0

\* The box of the call in gbox after the expansion and before the pad.
PrePad == expand_padded(gbox[1], gbox[2], gbox[3], gbox[4], gratio, 0)

\* C2 (as amended): when the clamp truncates no side, the returned box
\* with pad taken off each side has the target aspect within one pixel
\* (the pad is added to both extents after the expansion, so the returned
\* box itself has it only for pad = 0); when the clamp truncates a side,
\* the box before the pad still has it.
C2_AspectBeforePad ==
    gpc = "ex" =>
        IF ~Truncated
        THEN AspectWithinOnePixel(Width(gres) - 2*gpad, Height(gres) - 2*gpad, gratio)
        ELSE AspectWithinOnePixel(Width(PrePad), Height(PrePad), gratio)

\* C2 witness: an unclamped call with pad > 0 that widened the box.
C2_Witness ==
    /\ gpc = "ex"
    /\ ~Truncated
    /\ gpad > 0
    /\ Width(gres) > Width(gbox) + 2*gpad

\* C2 (as stated): the returned box itself has the target aspect within
\* one pixel unless the clamp truncated a side, and then the box before
\* the pad has it.
C2_Original ==
    gpc = "ex" =>
        IF ~Truncated
        THEN AspectWithinOnePixel(Width(gres), Height(gres), gratio)
        ELSE AspectWithinOnePixel(Width(PrePad), Height(PrePad), gratio)

\* C3 (as stated): re-applying expand_aspect to its own result with the
\* same ratio and pad 0 returns that result unchanged.
C3_Idempotent ==
    gpc = "re" => gres2 = gres

\* C8 (as amended): for pad >= 0 with min(w, h) - 2*pad > 0, center_square
\* returns a box of equal extents min(w, h) - 2*pad inside the image.
C8_CenteredSquare ==
    (gpc = "sq" /\ gpad >= 0 /\ Min(gw, gh) - 2*gpad > 0) =>
        /\ Width(gres) = Min(gw, gh) - 2*gpad
        /\ Height(gres) = Min(gw, gh) - 2*gpad
        /\ 0 <= gres[1] /\ 0 <= gres[2]
        /\ gres[3] <= gw /\ gres[4] <= gh

\* C8 witness: center_square(1000, 800, 40) = (140, 40, 860, 760).
C8_Witness ==
    /\ gpc = "sq"
    /\ gw = 1000 /\ gh = 800 /\ gpad = 40
    /\ gres = <<140, 40, 860, 760>>

\* C8 (as stated): the same for every pad with min(w, h) - 2*pad > 0,
\* a negative pad included.
C8_Original ==
    (gpc = "sq" /\ Min(gw, gh) - 2*gpad > 0) =>
        /\ Width(gres) = Min(gw, gh) - 2*gpad
        /\ Height(gres) = Min(gw, gh) - 2*gpad
        /\ 0 <= gres[1] /\ 0 <= gres[2]
        /\ gres[3] <= gw /\ gres[4] <= gh

\* ----------------------------------------------------------- run claims
RECURSIVE SumSeq(_)
SumSeq(q) == IF q = <<>> THEN 0 ELSE Head(q) + SumSeq(Tail(q))

\* The (rowIndex, col) of cell k, cells counted row by row from 0.
RECURSIVE CellOf(_, _, _)
CellOf(rows, k, rowIndex) ==
    IF k < rows[rowIndex + 1] THEN <<rowIndex, k>>
    ELSE CellOf(rows, k - rows[rowIndex + 1], rowIndex + 1)

ComposeWrites == { i \in DOMAIN writes : writes[i].kind = "compose" }

\* C4: in run_compose the k-th image in sorted filename order is pasted
\* into cell k (row by row, left to right) at x = col*(cellWidth+gutter),
\* y = rowIndex*(rowHeight+gutter); no image is used twice and no cell is
\* skipped.
C4_RowMajorOrder ==
    \A i \in ComposeWrites :
        LET d  == writes[i].data
            nr == Len(d.rows)
            rh == (d.size[2] - d.gutter * (nr - 1)) \div nr
        IN  /\ Len(d.pastes) = SumSeq(d.rows)
            /\ \A k \in 0..(Len(d.pastes) - 1) :
                 LET cell == CellOf(d.rows, k, 0)
                     rc   == d.rows[cell[1] + 1]
                     cwc  == (d.size[1] - d.gutter * (rc - 1)) \div rc
                 IN  /\ d.pastes[k + 1].img = k + 1
                     /\ d.pastes[k + 1].x = cell[2] * (cwc + d.gutter)
                     /\ d.pastes[k + 1].y = cell[1] * (rh + d.gutter)
            /\ \A j, k \in 1..Len(d.pastes) :
                 j # k => d.pastes[j].img # d.pastes[k].img

\* C4 witness: 4 images listed out of order, rows [2,2], canvas 800x800,
\* gutter 10, pasted at (0,0), (405,0), (0,405), (405,405).
C4_Witness ==
    \E i \in ComposeWrites :
        LET d == writes[i].data
        IN  /\ d.size = <<800, 800>> /\ d.gutter = 10 /\ d.rows = <<2, 2>>
            /\ folders[1].listing = <<3, 4, 1, 2>>
            /\ [k \in 1..4 |-> <<d.pastes[k].img, d.pastes[k].x, d.pastes[k].y>>]
                 = << <<1, 0, 0>>, <<2, 405, 0>>, <<3, 0, 405>>, <<4, 405, 405>> >>

\* C5: every row has the height (ch - g*(numRows-1)) div numRows and
\* numRows*rowHeight + g*(numRows-1) lies in [ch-(numRows-1), ch]; a row of
\* rcount columns has cells (cw - g*(rcount-1)) div rcount wide and
\* rcount*cellWidth + g*(rcount-1) lies in [cw-(rcount-1), cw].
C5_CellPartition ==
    \A i \in ComposeWrites :
        LET d  == writes[i].data
            nr == Len(d.rows)
        IN  \A k \in 0..(Len(d.pastes) - 1) :
                LET rc == d.rows[CellOf(d.rows, k, 0)[1] + 1]
                    p  == d.pastes[k + 1]
                IN  /\ p.h = (d.size[2] - d.gutter * (nr - 1)) \div nr
                    /\ nr * p.h + d.gutter * (nr - 1) >= d.size[2] - (nr - 1)
                    /\ nr * p.h + d.gutter * (nr - 1) <= d.size[2]
                    /\ p.w = (d.size[1] - d.gutter * (rc - 1)) \div rc
                    /\ rc * p.w + d.gutter * (rc - 1) >= d.size[1] - (rc - 1)
                    /\ rc * p.w + d.gutter * (rc - 1) <= d.size[1]

\* C5 witness: a canvas whose rows leave a pixel of slack and whose two
\* rows have cells of different widths.
C5_Witness ==
    \E i \in ComposeWrites :
        LET d == writes[i].data
        IN  /\ d.rows = <<1, 2>>
            /\ d.pastes[1].w # d.pastes[2].w
            /\ d.pastes[1].h = d.pastes[2].h
            /\ 2 * d.pastes[1].h + d.gutter < d.size[2]

Terminated == pc \in {"done", "crashed"}

\* A run that stopped in load_config: nothing was scanned.
LoadFailed == pc = "crashed" /\ single = <<>> /\ folders = <<>>

Written(kind, unit) ==
    \E i \in DOMAIN writes : writes[i].kind = kind /\ writes[i].unit = unit

EntrySet == { entries[i] : i \in DOMAIN entries }
ProfileSet == { config.profiles[i] : i \in DOMAIN config.profiles }

\* C6: an unreadable image, a missing pattern or a folder with too few
\* images stops only its own unit of work: once the run has ended, every
\* other image/profile and folder/profile combination has its artifact,
\* unless the configuration document could not be loaded.
C6_ErrorIsolation ==
    (Terminated /\ ~LoadFailed) =>
        \A e \in EntrySet, prof \in ProfileSet :
            /\ (e.kind = "file" /\ e.suffix \in ImageSuffixes /\ e.readable)
                   => Written("artifact", <<Name(e), prof.tag>>)
            /\ (e.kind = "dir" /\ Len(e.listing) > 0
                /\ HasPattern(prof, Len(e.listing))
                /\ SumSeq(RowsOf(prof, Len(e.listing))) <= Len(e.listing))
                   => Written("compose", <<Name(e), prof.tag>>)

\* C7: the base box of a source image is the detector's box only if there
\* is one and its area lies in [min_area, max_area] (no upper limit when
\* max_area is not given); otherwise it is center_square(w, h, args.pad).
C7_BaseBox ==
    last # None =>
        LET r == last[1]
            inRange == /\ r.det # None
                       /\ Area(r.det[1]) >= args.min_area
                       /\ (args.max_area = None \/ Area(r.det[1]) <= args.max_area[1])
        IN  r.bbox = IF inRange THEN r.det[1]
                     ELSE center_square(r.size[1], r.size[2], args.pad)

\* C9: the pixels cropped for a profile artifact are those of the source
\* image without the debug outline, and with debug on each source image
\* processed has exactly one debug file.
C9_DebugIndependent ==
    /\ \A i \in DOMAIN writes :
           writes[i].kind = "artifact" => ~writes[i].data.outlined
    /\ \A k \in 1..(bi - 1) :
           Cardinality({ i \in DOMAIN writes :
                           /\ writes[i].kind = "debug"
                           /\ writes[i].data.src = Name(single[k]) })
             = IF args.debug THEN 1 ELSE 0

\* C10: with unique profile tags, no output path is written twice in one
\* run of process.
C10_DisjointPaths ==
    \A i, j \in DOMAIN writes : i # j => writes[i].path # writes[j].path

====
